---------------------------- MODULE Spec2Model ----------------------------
(***************************************************************************)
(* A model of the quantitative trading backtester: the strategies of       *)
(* src/src/strategy.py, run_backtest of src/src/backtester.py and the      *)
(* metric functions of src/src/performance.py.                             *)
(*                                                                         *)
(* Numbers.  The program computes in IEEE doubles; the model computes in   *)
(* exact rationals (records [n, d] in lowest terms, d > 0), so equalities  *)
(* below are equalities of exact values.  Every float of the program is    *)
(* such a record; not-a-number is [n |-> 0, d |-> 0] and +infinity is      *)
(* [n |-> 1, d |-> 0].  Python's None is the record [none |-> TRUE].  A    *)
(* quantity s * sqrt(q) (a Sharpe or Sortino ratio) is the record          *)
(* [sgn |-> s, sq |-> q] with q a rational.                                *)
(*                                                                         *)
(* Frames.  A pandas DataFrame is [index |-> <<dates>>, cols |-> f] with   *)
(* DOMAIN f the set of column names and f[c] the column's values, one per  *)
(* index entry.  Indexes are strictly increasing (load_data sorts them).   *)
(***************************************************************************)
EXTENDS Integers, Sequences, FiniteSets, TLC

VARIABLES pc, data, params, strategy, signals, initial_capital,
          allow_shorting, portfolio, metrics, args, ret,
          parameter_combinations, RISK_FREE_RATE, all_results,
          best_sharpe, best_portfolio, best_params, best_metrics

\* the state of the parameter sweep of src/main.py
sweepvars == <<parameter_combinations, RISK_FREE_RATE, all_results,
               best_sharpe, best_portfolio, best_params, best_metrics>>

vars == <<pc, data, params, strategy, signals, initial_capital,
          allow_shorting, portfolio, metrics, args, ret,
          parameter_combinations, RISK_FREE_RATE, all_results,
          best_sharpe, best_portfolio, best_params, best_metrics>>

-----------------------------------------------------------------------------
(* Bounds of the model *)

\* longest price / signal / return series drawn for the small cases
MaxLen == 3

\* largest look-back window of a drawn strategy configuration
MaxWindow == 3

-----------------------------------------------------------------------------
(* Sentinels *)

None == [none |-> TRUE]

\* no sweep is running
NoSweep ==
    /\ parameter_combinations = None
    /\ RISK_FREE_RATE = None
    /\ all_results = None
    /\ best_sharpe = None
    /\ best_portfolio = None
    /\ best_params = None
    /\ best_metrics = None

NaN == [n |-> 0, d |-> 0]

Inf == [n |-> 1, d |-> 0]

IsNaN(x) == x = NaN

\* a float that is neither not-a-number nor infinite
IsFinite(x) == x.d > 0

-----------------------------------------------------------------------------
(* Exact arithmetic standing for the program's float arithmetic *)

Abs(x) == IF x < 0 THEN -x ELSE x

Sign(x) == IF x > 0 THEN 1 ELSE IF x < 0 THEN -1 ELSE 0

RECURSIVE GCD(_, _)
GCD(a, b) == IF b = 0 THEN a ELSE GCD(b, a % b)

\* the rational n / d (d # 0) in lowest terms with a positive denominator
Rat(n, d) ==
    LET g == GCD(Abs(n), Abs(d))
        s == IF d < 0 THEN -1 ELSE 1
    IN  [n |-> (s * n) \div g, d |-> (s * d) \div g]

RatInt(k) == [n |-> k, d |-> 1]

RatAdd(x, y) == Rat(x.n * y.d + y.n * x.d, x.d * y.d)

RatSub(x, y) == Rat(x.n * y.d - y.n * x.d, x.d * y.d)

RatMul(x, y) == Rat(x.n * y.n, x.d * y.d)

\* x / y for y # 0
RatDiv(x, y) == Rat(x.n * y.d, x.d * y.n)

RatLt(x, y) == x.n * y.d < y.n * x.d

RatLe(x, y) == x.n * y.d <= y.n * x.d

\* float comparisons: every comparison with not-a-number is false
Gt(x, y) == ~IsNaN(x) /\ ~IsNaN(y) /\ RatLt(y, x)

Lt(x, y) == ~IsNaN(x) /\ ~IsNaN(y) /\ RatLt(x, y)

Ge(x, y) == ~IsNaN(x) /\ ~IsNaN(y) /\ RatLe(y, x)

Le(x, y) == ~IsNaN(x) /\ ~IsNaN(y) /\ RatLe(x, y)

RatAbs(x) == [n |-> Abs(x.n), d |-> x.d]

RatNeg(x) == [n |-> -x.n, d |-> x.d]

Zero == RatInt(0)

One == RatInt(1)

-----------------------------------------------------------------------------
(* Frames *)

PriceCol == "Adj Close"

SignalCol == "signal"

\* a frame with the price column only
PriceFrame(index, close) ==
    [index |-> index, cols |-> [c \in {PriceCol} |-> close]]

\* a frame with the signal column only
SignalFrame(index, sig) ==
    [index |-> index, cols |-> [c \in {SignalCol} |-> sig]]

\* DataFrame.empty: some axis has length 0
FrameEmpty(f) == Len(f.index) = 0 \/ DOMAIN f.cols = {}

\* the position of label d in an index that holds it
RowOf(index, d) == CHOOSE i \in 1..Len(index) : index[i] = d

InIndex(index, d) == \E i \in 1..Len(index) : index[i] = d

\* Index.intersection of two increasing indexes, in order
Intersection(ix, iy) == SelectSeq(ix, LAMBDA d : InIndex(iy, d))

\* the sequence f[1], ..., f[n] of a function f, as a tuple
RECURSIVE ToSeq(_, _)
ToSeq(f, n) == IF n = 0 THEN <<>> ELSE Append(ToSeq(f, n - 1), f[n])

\* frame[col].loc[labels], the labels all present in the frame
LocCol(f, col, labels) ==
    ToSeq([i \in 1..Len(labels) |-> f.cols[col][RowOf(f.index, labels[i])]],
          Len(labels))

\* the rows from position first on (DataFrame.loc[label:])
FrameFrom(f, first) ==
    LET n == Len(f.index) - first + 1
    IN  [index |-> SubSeq(f.index, first, Len(f.index)),
         cols  |-> [c \in DOMAIN f.cols |->
                       SubSeq(f.cols[c], first, Len(f.index))]]

-----------------------------------------------------------------------------
(* Series operations of pandas *)

\* Series.shift(k), k >= 0: the first k entries undefined
Shift(s, k) ==
    ToSeq([i \in 1..Len(s) |-> IF i <= k THEN NaN ELSE s[i - k]], Len(s))

\* Series.fillna(v)
Fillna(s, v) ==
    ToSeq([i \in 1..Len(s) |-> IF IsNaN(s[i]) THEN v ELSE s[i]], Len(s))

\* Series.pct_change(k), k >= 1, on a series of positive prices
PctChange(s, k) ==
    ToSeq([i \in 1..Len(s) |->
              IF i <= k THEN NaN ELSE RatSub(RatDiv(s[i], s[i - k]), One)],
          Len(s))

\* the running products of the first n entries
RECURSIVE CumprodTo(_, _)
CumprodTo(s, n) ==
    IF n = 0 THEN <<>>
    ELSE IF n = 1 THEN <<s[1]>>
    ELSE LET before == CumprodTo(s, n - 1)
         IN  Append(before, RatMul(before[n - 1], s[n]))

\* Series.cumprod()
Cumprod(s) == CumprodTo(s, Len(s))

\* Series.first_valid_index() as a row number, 0 when every entry is undefined
FirstValid(s) ==
    IF \A i \in 1..Len(s) : IsNaN(s[i]) THEN 0
    ELSE CHOOSE i \in 1..Len(s) :
            ~IsNaN(s[i]) /\ \A j \in 1..(i - 1) : IsNaN(s[j])

\* Series.dropna()
DropNa(s) == SelectSeq(s, LAMBDA x : ~IsNaN(x))

RECURSIVE SumTo(_, _)
SumTo(s, n) == IF n = 0 THEN Zero ELSE RatAdd(SumTo(s, n - 1), s[n])

\* Series.mean() of a non-empty series without undefined entries
Mean(s) == RatDiv(SumTo(s, Len(s)), RatInt(Len(s)))

\* the square of Series.std() (one delta degree of freedom); undefined for
\* fewer than two entries
Variance(s) ==
    IF Len(s) < 2 THEN NaN
    ELSE LET m == Mean(s)
             sq == ToSeq([i \in 1..Len(s) |->
                            RatMul(RatSub(s[i], m), RatSub(s[i], m))], Len(s))
         IN  RatDiv(SumTo(sq, Len(s)), RatInt(Len(s) - 1))

-----------------------------------------------------------------------------
(* run_backtest, src/src/backtester.py *)

\* a variant of the input checks that also refuses inputs whose indexes differ
InvalidInputs_RequireSameIndex(d, sg) ==
    IF d = None \/ sg = None THEN TRUE
    ELSE IF FrameEmpty(d) \/ FrameEmpty(sg) THEN TRUE
    ELSE IF PriceCol \notin DOMAIN d.cols THEN TRUE
    ELSE SignalCol \notin DOMAIN sg.cols \/ d.index # sg.index

\* the input checks of run_backtest: TRUE when it returns None at once
InvalidInputs(d, sg) ==
    IF d = None \/ sg = None THEN TRUE
    ELSE IF FrameEmpty(d) \/ FrameEmpty(sg) THEN TRUE
    ELSE IF PriceCol \notin DOMAIN d.cols THEN TRUE
    ELSE SignalCol \notin DOMAIN sg.cols

\* the index run_backtest aligns both inputs to
CommonIndex(d, sg) == Intersection(d.index, sg.index)

\* a variant that uses the same day's signal
ShiftedSignal_NoLag(sig) == Fillna(sig, Zero)

\* yesterday's signal, 0 on the first day
ShiftedSignal(sig) == Fillna(Shift(sig, 1), Zero)

\* a variant of the position logic that shorts whatever allow_shorting says
PositionOf_AlwaysShort(x, shorting) ==
    IF Gt(x, Zero) THEN One
    ELSE IF Lt(x, Zero) THEN RatNeg(One)
    ELSE Zero

\* the position logic applied to one shifted signal
PositionOf(x, shorting) ==
    IF Gt(x, Zero) THEN One
    ELSE IF Lt(x, Zero) /\ shorting THEN RatNeg(One)
    ELSE Zero

Positions(sig, shorting) ==
    LET sh == ShiftedSignal(sig)
    IN  ToSeq([i \in 1..Len(sig) |-> PositionOf(sh[i], shorting)], Len(sig))

MarketReturn(close) == Fillna(PctChange(close, 1), Zero)

\* a variant that leaves the position out of the strategy return
StrategyReturn_IgnorePosition(position, market_return) ==
    Fillna(market_return, Zero)

StrategyReturn(position, market_return) ==
    Fillna(ToSeq([i \in 1..Len(position) |->
                     RatMul(position[i], market_return[i])], Len(position)),
           Zero)

EquityCurve(capital, cumulative_strategy) ==
    ToSeq([i \in 1..Len(cumulative_strategy) |->
              RatMul(capital, cumulative_strategy[i])],
          Len(cumulative_strategy))

\* the portfolio frame built over the aligned inputs, before truncation
BuildPortfolio(index, close, sig, capital, shorting) ==
    LET position == Positions(sig, shorting)
        market_return == MarketReturn(close)
        strategy_return == StrategyReturn(position, market_return)
        plus1(s) == ToSeq([i \in 1..Len(s) |-> RatAdd(One, s[i])], Len(s))
        cumulative_strategy == Cumprod(plus1(strategy_return))
    IN  [index |-> index,
         cols  |-> [c \in {"Adj Close", "signal", "position", "market_return",
                           "strategy_return", "cumulative_market",
                           "cumulative_strategy", "equity_curve"} |->
            CASE c = "Adj Close" -> close
              [] c = "signal" -> sig
              [] c = "position" -> position
              [] c = "market_return" -> market_return
              [] c = "strategy_return" -> strategy_return
              [] c = "cumulative_market" -> Cumprod(plus1(market_return))
              [] c = "cumulative_strategy" -> cumulative_strategy
              [] c = "equity_curve" ->
                     EquityCurve(capital, cumulative_strategy)]]

\* a variant that starts the trajectory one date late
Truncate_AfterFirst(pf) ==
    LET first == FirstValid(pf.cols["strategy_return"])
    IN  IF first = 0 THEN None
        ELSE IF Len(pf.index) - first = 0 THEN None
        ELSE FrameFrom(pf, first + 1)

\* the truncation to the first defined strategy return
Truncate(pf) ==
    LET first == FirstValid(pf.cols["strategy_return"])
    IN  IF first = 0 THEN None
        ELSE IF Len(pf.index) - first + 1 = 0 THEN None
        ELSE FrameFrom(pf, first)

run_backtest(d, sg, capital, shorting) ==
    IF InvalidInputs(d, sg) THEN None
    ELSE LET common_index == CommonIndex(d, sg)
         IN  IF Len(common_index) = 0 THEN None
             ELSE Truncate(BuildPortfolio(common_index,
                                          LocCol(d, PriceCol, common_index),
                                          LocCol(sg, SignalCol, common_index),
                                          capital, shorting))

-----------------------------------------------------------------------------
(* The strategies, src/src/strategy.py.  A configuration is a record with   *)
(* the strategy_type and its parameters; a constructed strategy is the      *)
(* record [params, data, signals], an exception raised by a constructor the *)
(* record [raised |-> "ValueError"].                                        *)

ValueError == [raised |-> "ValueError"]

\* len(data) of a frame
Rows(d) == Len(d.index)

\* a variant of the constructors' checks that asks Momentum for window rows
ConstructorRaises_MomentumWindowOnly(d, p) ==
    IF FrameEmpty(d) THEN TRUE
    ELSE CASE p.strategy_type = "momentum" -> Rows(d) < p.window
           [] p.strategy_type = "mean_reversion" -> Rows(d) < p.window
           [] p.strategy_type = "sma_crossover" ->
                 p.short_window >= p.long_window \/ Rows(d) < p.long_window

\* the checks of Strategy.__init__ and of the constructor of the variant:
\* TRUE when construction raises ValueError
ConstructorRaises(d, p) ==
    IF FrameEmpty(d) THEN TRUE
    ELSE CASE p.strategy_type = "momentum" -> Rows(d) < p.window + 1
           [] p.strategy_type = "mean_reversion" -> Rows(d) < p.window
           [] p.strategy_type = "sma_crossover" ->
                 p.short_window >= p.long_window \/ Rows(d) < p.long_window

\* the signals frame Strategy.__init__ creates: 0.0 on every date
InitialSignals(d) ==
    [index |-> d.index,
     cols  |-> [c \in {SignalCol} |-> ToSeq([i \in 1..Rows(d) |-> Zero], Rows(d))]]

\* XStrategy(data, ...): the object constructed, or the exception raised
Construct(d, p) ==
    IF ConstructorRaises(d, p) THEN ValueError
    ELSE [params |-> p, data |-> d, signals |-> InitialSignals(d)]

\* signals.loc[mask, 'signal'] = v on a signal column
Assign(sig, mask, v) ==
    ToSeq([i \in 1..Len(sig) |-> IF mask[i] THEN v ELSE sig[i]], Len(sig))

\* a variant of the momentum that is not lagged by one day
Momentum_NoShift(close, window) == PctChange(close, window)

\* data['Adj Close'].pct_change(window).shift(1)
Momentum(close, window) == Shift(PctChange(close, window), 1)

\* MomentumStrategy.generate_signals: the signal column
MomentumSignal(close, initial, window) ==
    LET momentum == Momentum(close, window)
        n == Len(close)
        bought == Assign(initial,
                         ToSeq([i \in 1..n |-> Gt(momentum[i], Zero)], n), One)
    IN  Assign(bought, ToSeq([i \in 1..n |-> Lt(momentum[i], Zero)], n),
               RatInt(-1))

\* a variant whose window is centred: it reaches one row past row i
Window_Centred(close, size, i) ==
    LET last == IF i + 1 > Len(close) THEN Len(close) ELSE i + 1
    IN  SubSeq(close, IF last - size + 1 < 1 THEN 1 ELSE last - size + 1, last)

\* the entries of the rolling window of the given size that ends at row i
Window(close, size, i) ==
    SubSeq(close, IF i - size + 1 < 1 THEN 1 ELSE i - size + 1, i)

\* Series.rolling(window, min_periods).mean()
RollingMean(close, size, min_periods) ==
    ToSeq([i \in 1..Len(close) |->
              LET w == Window(close, size, i)
              IN  IF Len(w) < min_periods \/ Len(w) = 0 THEN NaN ELSE Mean(w)],
          Len(close))

\* the variance behind Series.rolling(window, min_periods).std(), with a
\* standard deviation of 0 replaced by the undefined value
RollingVariance(close, size, min_periods) ==
    ToSeq([i \in 1..Len(close) |->
              LET w == Window(close, size, i)
              IN  IF Len(w) < min_periods \/ Len(w) < 2 THEN NaN
                  ELSE IF Variance(w) = Zero THEN NaN
                  ELSE Variance(w)],
          Len(close))

\* int(window * 0.8)
MinPeriods(window) == (4 * window) \div 5

\* z < c for the z-score z = dev / sqrt(var), var > 0, and a rational c
ZLt(dev, var, c) ==
    LET dev2 == RatMul(dev, dev)
        c2var == RatMul(RatMul(c, c), var)
    IN  IF c.n > 0 THEN dev.n < 0 \/ RatLt(dev2, c2var)
        ELSE dev.n < 0 /\ RatLt(c2var, dev2)

\* z > c
ZGt(dev, var, c) == ZLt(RatNeg(dev), var, RatNeg(c))

\* a variant that applies the entry rules only
MeanReversionSignal_EntriesOnly(close, initial, window, entry_z, exit_z) ==
    LET n == Len(close)
        rolling_mean == RollingMean(close, window, MinPeriods(window))
        rolling_var == RollingVariance(close, window, MinPeriods(window))
        defined == ToSeq([i \in 1..n |->
                            ~IsNaN(rolling_mean[i]) /\ ~IsNaN(rolling_var[i])], n)
        dev == ToSeq([i \in 1..n |->
                        IF defined[i] THEN RatSub(close[i], rolling_mean[i])
                        ELSE NaN], n)
        below(i, c) == i > 1 /\ defined[i - 1]
                             /\ ZLt(dev[i - 1], rolling_var[i - 1], c)
        above(i, c) == i > 1 /\ defined[i - 1]
                             /\ ZGt(dev[i - 1], rolling_var[i - 1], c)
        long == Assign(initial,
                       ToSeq([i \in 1..n |-> below(i, RatNeg(entry_z))], n), One)
    IN  Assign(long, ToSeq([i \in 1..n |-> above(i, entry_z)], n), RatInt(-1))

\* MeanReversionStrategy.generate_signals: the signal column
MeanReversionSignal(close, initial, window, entry_z, exit_z) ==
    LET n == Len(close)
        rolling_mean == RollingMean(close, window, MinPeriods(window))
        rolling_var == RollingVariance(close, window, MinPeriods(window))
        defined == ToSeq([i \in 1..n |->
                            ~IsNaN(rolling_mean[i]) /\ ~IsNaN(rolling_var[i])], n)
        dev == ToSeq([i \in 1..n |->
                        IF defined[i] THEN RatSub(close[i], rolling_mean[i])
                        ELSE NaN], n)
        \* the shifted z-score of row i is that of row i - 1
        below(i, c) == i > 1 /\ defined[i - 1]
                             /\ ZLt(dev[i - 1], rolling_var[i - 1], c)
        above(i, c) == i > 1 /\ defined[i - 1]
                             /\ ZGt(dev[i - 1], rolling_var[i - 1], c)
        long == Assign(initial,
                       ToSeq([i \in 1..n |-> below(i, RatNeg(entry_z))], n), One)
        entered == Assign(long, ToSeq([i \in 1..n |-> above(i, entry_z)], n),
                          RatInt(-1))
        flatten_long_condition ==
            ToSeq([i \in 1..n |-> i > 1 /\ entered[i - 1] = One
                                       /\ above(i, RatNeg(exit_z))], n)
        flat_long == Assign(entered, flatten_long_condition, Zero)
        flatten_short_condition ==
            ToSeq([i \in 1..n |-> i > 1 /\ flat_long[i - 1] = RatInt(-1)
                                       /\ below(i, exit_z)], n)
    IN  Assign(flat_long, flatten_short_condition, Zero)

\* Series.ffill(): an undefined entry takes the last defined value before it
RECURSIVE FfillTo(_, _)
FfillTo(s, n) ==
    IF n = 0 THEN <<>>
    ELSE IF n = 1 THEN <<s[1]>>
    ELSE LET before == FfillTo(s, n - 1)
         IN  Append(before, IF IsNaN(s[n]) THEN before[n - 1] ELSE s[n])

Ffill(s) == FfillTo(s, Len(s))

\* comparisons of the short and the long average k rows before row i
\* (shift(k)); a comparison with a missing or undefined average is false
SmaGt(short_sma, long_sma, i, k) ==
    i - k >= 1 /\ Gt(short_sma[i - k], long_sma[i - k])

SmaLt(short_sma, long_sma, i, k) ==
    i - k >= 1 /\ Lt(short_sma[i - k], long_sma[i - k])

SmaGe(short_sma, long_sma, i, k) ==
    i - k >= 1 /\ Ge(short_sma[i - k], long_sma[i - k])

SmaLe(short_sma, long_sma, i, k) ==
    i - k >= 1 /\ Le(short_sma[i - k], long_sma[i - k])

\* a variant that takes "not above" two rows back for "below or equal"
CrossedUp_NotAbove(short_sma, long_sma, i) ==
    SmaGt(short_sma, long_sma, i, 1) /\ ~SmaGt(short_sma, long_sma, i, 2)

\* the short average crossed above the long one the day before row i
CrossedUp(short_sma, long_sma, i) ==
    SmaGt(short_sma, long_sma, i, 1) /\ SmaLe(short_sma, long_sma, i, 2)

\* the short average crossed below the long one the day before row i
CrossedDown(short_sma, long_sma, i) ==
    SmaLt(short_sma, long_sma, i, 1) /\ SmaGe(short_sma, long_sma, i, 2)

\* SMACrossoverStrategy.generate_signals: the signal column
SMACrossoverSignal(close, initial, short_window, long_window) ==
    LET n == Len(close)
        short_sma == RollingMean(close, short_window, short_window)
        long_sma == RollingMean(close, long_window, long_window)
        up == Assign(initial,
                     ToSeq([i \in 1..n |-> CrossedUp(short_sma, long_sma, i)], n),
                     One)
        crossed == Assign(up,
                          ToSeq([i \in 1..n |->
                                    CrossedDown(short_sma, long_sma, i)], n),
                          RatInt(-1))
        held == Fillna(Ffill(crossed), Zero)
        sold == Assign(held,
                       ToSeq([i \in 1..n |->
                                 /\ i > 1
                                 /\ held[i - 1] = One
                                 /\ SmaLt(short_sma, long_sma, i, 0)], n),
                       Zero)
    IN  Assign(sold,
               ToSeq([i \in 1..n |->
                         /\ i > 1
                         /\ sold[i - 1] = RatInt(-1)
                         /\ SmaGt(short_sma, long_sma, i, 0)], n),
               Zero)

\* strategy.generate_signals(): the frame returned, with its signal column
generate_signals(st) ==
    LET p == st.params
        close == st.data.cols[PriceCol]
        initial == st.signals.cols[SignalCol]
    IN  SignalFrame(st.signals.index,
           CASE p.strategy_type = "momentum" ->
                   MomentumSignal(close, initial, p.window)
             [] p.strategy_type = "mean_reversion" ->
                   MeanReversionSignal(close, initial, p.window,
                                       p.entry_z, p.exit_z)
             [] p.strategy_type = "sma_crossover" ->
                   SMACrossoverSignal(close, initial, p.short_window,
                                      p.long_window))

-----------------------------------------------------------------------------
(* The metric functions, src/src/performance.py.  A pandas Series handed to *)
(* them is the record [values |-> <<...>>], so that it compares with None.  *)

Series(v) == [values |-> v]

\* the daily periods of a year, by which ratios are annualized
TradingDays == 252

\* mean / std * sqrt(252) for a defined, non-zero variance: the sign of the
\* mean and the square of the ratio
Annualized(mean, variance) ==
    [sgn |-> Sign(mean.n),
     sq  |-> RatDiv(RatMul(RatInt(TradingDays), RatMul(mean, mean)), variance)]

\* returns - risk_free_rate / 252
ExcessReturns(returns, risk_free_rate) ==
    LET daily == RatDiv(risk_free_rate, RatInt(TradingDays))
    IN  ToSeq([i \in 1..Len(returns) |-> RatSub(returns[i], daily)],
              Len(returns))

calculate_sharpe(returns, risk_free_rate) ==
    IF returns = None THEN NaN
    ELSE IF Len(returns.values) < 2 THEN NaN
    ELSE LET kept == DropNa(returns.values)
         IN  IF Len(kept) < 2 THEN NaN
             ELSE LET excess_returns == ExcessReturns(kept, risk_free_rate)
                      mean_excess_return == Mean(excess_returns)
                      variance == Variance(excess_returns)
                  IN  IF variance = Zero \/ IsNaN(variance) THEN NaN
                      ELSE Annualized(mean_excess_return, variance)

\* a variant that reports no ratio when there is no downside
NoDownside_Undefined(mean) == NaN

\* the Sortino ratio when there is no downside deviation to divide by
NoDownside(mean) == IF Gt(mean, Zero) THEN Inf ELSE NaN

calculate_sortino(returns, risk_free_rate) ==
    IF returns = None THEN NaN
    ELSE IF Len(returns.values) < 2 THEN NaN
    ELSE LET kept == DropNa(returns.values)
         IN  IF Len(kept) < 2 THEN NaN
             ELSE LET excess_returns == ExcessReturns(kept, risk_free_rate)
                      negative_excess_returns ==
                          SelectSeq(excess_returns, LAMBDA x : Lt(x, Zero))
                      downside_variance == Variance(negative_excess_returns)
                  IN  IF Len(negative_excess_returns) = 0
                      THEN NoDownside(Mean(excess_returns))
                      ELSE IF downside_variance = Zero \/ IsNaN(downside_variance)
                      THEN NoDownside(Mean(excess_returns))
                      ELSE Annualized(Mean(excess_returns), downside_variance)

\* the running maximum of the first n entries
RECURSIVE CummaxTo(_, _)
CummaxTo(s, n) ==
    IF n = 0 THEN <<>>
    ELSE IF n = 1 THEN <<s[1]>>
    ELSE LET before == CummaxTo(s, n - 1)
         IN  Append(before, IF RatLt(before[n - 1], s[n]) THEN s[n]
                            ELSE before[n - 1])

\* Series.min() of a non-empty series without undefined entries
SeqMin(s) ==
    s[CHOOSE i \in 1..Len(s) : \A j \in 1..Len(s) : RatLe(s[i], s[j])]

\* a variant that measures every drop from the start instead of from the peak
Drawdowns_FromStart(values) ==
    ToSeq([i \in 1..Len(values) |->
              RatSub(RatDiv(values[i], values[1]), One)], Len(values))

\* the drawdown of every point of a positive curve from its running maximum
Drawdowns(values) ==
    LET cumulative_returns ==
            ToSeq([i \in 1..Len(values) |-> RatDiv(values[i], values[1])],
                  Len(values))
        running_max == CummaxTo(cumulative_returns, Len(values))
    IN  ToSeq([i \in 1..Len(values) |->
                  RatDiv(RatSub(cumulative_returns[i], running_max[i]),
                         running_max[i])], Len(values))

calculate_max_drawdown(portfolio_value) ==
    IF portfolio_value = None THEN NaN
    ELSE IF Len(portfolio_value.values) < 2 THEN NaN
    ELSE LET kept == DropNa(portfolio_value.values)
         IN  IF Len(kept) < 2 THEN NaN
             ELSE IF \E i \in 1..Len(kept) : Le(kept[i], Zero) THEN NaN
             ELSE SeqMin(Drawdowns(kept))

\* a variant that counts every unit of position change as a trade
TotalTrades_Undivided(pf) ==
    LET position == pf.cols["position"]
        n == Len(position)
        change == ToSeq([i \in 1..n |->
                           IF i = 1 THEN Zero
                           ELSE RatAbs(RatSub(position[i], position[i - 1]))], n)
    IN  SumTo(change, n)

\* portfolio['position'].diff().fillna(0).abs().sum() / 2
TotalTrades(pf) ==
    LET position == pf.cols["position"]
        n == Len(position)
        change == ToSeq([i \in 1..n |->
                           IF i = 1 THEN Zero
                           ELSE RatAbs(RatSub(position[i], position[i - 1]))], n)
    IN  RatDiv(SumTo(change, n), RatInt(2))

\* x / y for a rational y # 0: a rational when x is one, and the pair of x
\* and y when x is a growth rate that has no rational value
Over(x, y) == IF "n" \in DOMAIN x THEN RatDiv(x, y) ELSE [num |-> x, den |-> y]

\* a variant that divides by the drawdown as given
Quotient_Signed(cagr, max_drawdown) == RatDiv(cagr, max_drawdown)

\* cagr / abs(max_drawdown), the drawdown made negative first
Quotient(cagr, max_drawdown) ==
    LET negative == IF Gt(max_drawdown, Zero) THEN RatNeg(max_drawdown)
                    ELSE max_drawdown
    IN  Over(cagr, RatAbs(negative))

calculate_calmar(cagr, max_drawdown) ==
    IF max_drawdown = None THEN NaN
    ELSE IF max_drawdown = Zero THEN NaN
    ELSE IF cagr = None \/ IsNaN(cagr) \/ IsNaN(max_drawdown) THEN NaN
    ELSE Quotient(cagr, max_drawdown)

\* a pandas Series with its index of dates, counted in days
IndexedSeries(index, v) == [index |-> index, values |-> v]

\* (end_date - start_date).days / 365.25
NumYears(index) == Rat(4 * (index[Len(index)] - index[1]), 1461)

\* base ** (1 / num_years) - 1 for num_years > 0, where 1 / num_years is never
\* an integer: undefined for a negative base, exact for the bases 0 and 1, and
\* otherwise the pair of the base and the years, which stands for the value
Growth(base, num_years) ==
    IF IsNaN(base) \/ Lt(base, Zero) THEN NaN
    ELSE IF base = Zero THEN RatInt(-1)
    ELSE IF base = One THEN Zero
    ELSE [base |-> base, years |-> num_years]

calculate_cagr(portfolio_value) ==
    IF portfolio_value = None THEN NaN
    ELSE IF Len(portfolio_value.values) < 2 THEN NaN
    ELSE LET start_value == portfolio_value.values[1]
             end_value == portfolio_value.values[Len(portfolio_value.values)]
             num_years == NumYears(portfolio_value.index)
         IN  IF Le(start_value, Zero) THEN NaN
             ELSE IF Le(num_years, Zero) THEN NaN
             ELSE IF IsNaN(start_value) \/ IsNaN(end_value) THEN NaN
             ELSE Growth(RatDiv(end_value, start_value), num_years)

\* the names of the record calculate_performance_metrics fills for a
\* trajectory it accepts
MetricNames ==
    {"CAGR", "Annualized Sharpe Ratio", "Annualized Sortino Ratio",
     "Max Drawdown", "Calmar Ratio", "Cumulative Return",
     "Annualized Volatility", "Total Trades"}

\* the names it fills for a trajectory it rejects: the list of keys of
\* lines 115 and 124
RejectedNames ==
    {"CAGR", "Annualized Sharpe Ratio", "Annualized Sortino Ratio",
     "Max Drawdown", "Calmar Ratio", "Cumulative Return",
     "Annualized Volatility"}

KeyError == [raised |-> "KeyError"]

\* strategy_returns.std() * np.sqrt(252)
AnnualizedVolatility(returns) ==
    LET variance == Variance(DropNa(returns))
    IN  IF IsNaN(variance) THEN NaN
        ELSE [sgn |-> Sign(variance.n),
              sq  |-> RatMul(RatInt(TradingDays), variance)]

\* (equity_curve.iloc[-1] / equity_curve.iloc[0]) - 1
CumulativeReturn(equity) ==
    IF equity[1] = Zero THEN NaN
    ELSE IF IsNaN(equity[1]) \/ IsNaN(equity[Len(equity)]) THEN NaN
    ELSE RatSub(RatDiv(equity[Len(equity)], equity[1]), One)

calculate_performance_metrics(pf, risk_free_rate) ==
    IF pf = None THEN [k \in RejectedNames |-> NaN]
    ELSE IF FrameEmpty(pf) \/ "equity_curve" \notin DOMAIN pf.cols
                           \/ "strategy_return" \notin DOMAIN pf.cols
    THEN [k \in RejectedNames |-> NaN]
    ELSE IF "position" \notin DOMAIN pf.cols THEN KeyError
    ELSE LET equity_curve == IndexedSeries(pf.index, pf.cols["equity_curve"])
             strategy_returns ==
                 IndexedSeries(pf.index, pf.cols["strategy_return"])
             cagr == calculate_cagr(equity_curve)
             max_drawdown == calculate_max_drawdown(equity_curve)
         IN  [k \in MetricNames |->
                CASE k = "CAGR" -> cagr
                  [] k = "Annualized Sharpe Ratio" ->
                        calculate_sharpe(strategy_returns, risk_free_rate)
                  [] k = "Annualized Sortino Ratio" ->
                        calculate_sortino(strategy_returns, risk_free_rate)
                  [] k = "Max Drawdown" -> max_drawdown
                  [] k = "Calmar Ratio" -> calculate_calmar(cagr, max_drawdown)
                  [] k = "Cumulative Return" ->
                        CumulativeReturn(equity_curve.values)
                  [] k = "Annualized Volatility" ->
                        AnnualizedVolatility(strategy_returns.values)
                  [] k = "Total Trades" -> TotalTrades(pf)]

-----------------------------------------------------------------------------
(* Inputs of the calls checked below *)

Dates == 1..MaxLen

PriceValues == {RatInt(2), RatInt(3)}

SignalValues == {RatInt(-1), Zero, One}

\* the signal values with the undefined one, which no strategy emits
AnySignalValues == SignalValues \cup {NaN}

Capitals == {RatInt(100000), RatInt(250)}

RangeIndex(k) == [i \in 1..k |-> i]

\* the strictly increasing sequence of the elements of a set of integers
SortedSeq(T) ==
    CHOOSE s \in [1..Cardinality(T) -> T] :
        \A i \in 1..(Cardinality(T) - 1) : s[i] < s[i + 1]

Indexes == {SortedSeq(T) : T \in SUBSET Dates}

\* a frame with the given index and only a column of another name
OtherFrame(index, col) ==
    [index |-> index, cols |-> [c \in {col} |-> [i \in 1..Len(index) |-> One]]]

\* a frame with an index and no column
BareFrame(index) == [index |-> index, cols |-> <<>>]

\* a fixed price for each date, used where only the alignment varies
DatePrice(d) == RatInt(1 + ((2 * d) % 3))

\* both inputs over the same dates 1..k: every price and signal series
AlignedInputs ==
    UNION {{<<PriceFrame(RangeIndex(k), close), SignalFrame(RangeIndex(k), sig)>> :
                close \in [1..k -> PriceValues], sig \in [1..k -> SignalValues]} :
           k \in 1..MaxLen}

\* inputs over any two sets of dates (either may be empty)
MisalignedInputs ==
    UNION {{<<PriceFrame(ix, [i \in 1..Len(ix) |-> DatePrice(ix[i])]),
              SignalFrame(iy, sig)>> :
                sig \in [1..Len(iy) -> SignalValues]} :
           <<ix, iy>> \in Indexes \X Indexes}

\* signal series with undefined entries, over the dates 1..k
UndefinedSignalInputs ==
    UNION {{<<PriceFrame(RangeIndex(k), [i \in 1..k |-> DatePrice(i)]),
              SignalFrame(RangeIndex(k), sig)>> :
                sig \in [1..k -> AnySignalValues]} :
           k \in 1..MaxLen}

BadData ==
    {None} \cup {BareFrame(RangeIndex(k)) : k \in 0..MaxLen}
           \cup {OtherFrame(RangeIndex(k), "Volume") : k \in 0..MaxLen}

BadSignals ==
    {None} \cup {BareFrame(RangeIndex(k)) : k \in 0..MaxLen}
           \cup {OtherFrame(RangeIndex(k), "short_sma") : k \in 0..MaxLen}

SomeData ==
    {PriceFrame(RangeIndex(k), [i \in 1..k |-> DatePrice(i)]) : k \in 1..MaxLen}

SomeSignals ==
    {SignalFrame(RangeIndex(k), [i \in 1..k |-> One]) : k \in 1..MaxLen}

\* an input absent, without columns or without the required column
DegenerateInputs ==
    (BadData \X (BadSignals \cup SomeSignals)) \cup (SomeData \X BadSignals)

BacktestInputs ==
    AlignedInputs \cup MisalignedInputs \cup UndefinedSignalInputs
                  \cup DegenerateInputs

-----------------------------------------------------------------------------
(* A call of run_backtest on arbitrary inputs *)

InitBacktest ==
    /\ pc = "call"
    /\ \E in \in BacktestInputs : data = in[1] /\ signals = in[2]
    /\ initial_capital \in Capitals
    /\ allow_shorting \in BOOLEAN
    /\ portfolio = None
    /\ params = None
    /\ strategy = None
    /\ metrics = None
    /\ args = None
    /\ ret = None
    /\ NoSweep

CallRunBacktest ==
    /\ pc = "call"
    /\ portfolio' = run_backtest(data, signals, initial_capital, allow_shorting)
    /\ pc' = "returned"
    /\ UNCHANGED <<data, params, strategy, signals, initial_capital,
                   allow_shorting, metrics, args, ret>>
    /\ UNCHANGED sweepvars

NextBacktest == CallRunBacktest

SpecBacktest == InitBacktest /\ [][NextBacktest]_vars

-----------------------------------------------------------------------------
(* Properties of run_backtest *)

\* the input signal at a date the signal frame holds
SignalAt(sg, d) == sg.cols[SignalCol][RowOf(sg.index, d)]

\* the column of a trajectory as a function of the date
ValueAt(pf, col, d) == pf.cols[col][RowOf(pf.index, d)]

\* the position a lagged signal value stands for
LaggedPosition(x, shorting) ==
    IF x.d > 0 /\ x.n > 0 THEN One
    ELSE IF x.d > 0 /\ x.n < 0 /\ shorting THEN RatInt(-1)
    ELSE Zero

\* C1: the position at the first date is 0, the position at every later date
\* of the trajectory is +1 when the signal at the previous date is positive,
\* -1 when it is negative and shorting is allowed, else 0; and replacing the
\* signal at date t or at any later date by any value leaves position(t) as
\* it is.
C1_PositionFromLaggedSignal ==
    (pc = "returned" /\ portfolio # None) =>
        LET dates == portfolio.index
            pos == portfolio.cols["position"]
        IN  /\ pos[1] = Zero
            /\ \A t \in 2..Len(dates) :
                  pos[t] = LaggedPosition(SignalAt(signals, dates[t - 1]),
                                          allow_shorting)
            /\ \A j \in 1..Len(signals.index) :
                  \A v \in AnySignalValues :
                     LET alt == [signals EXCEPT !.cols[SignalCol][j] = v]
                         other == run_backtest(data, alt, initial_capital,
                                               allow_shorting)
                     IN  /\ other # None
                         /\ \A t \in 1..Len(dates) :
                               dates[t] <= signals.index[j] =>
                                  ValueAt(other, "position", dates[t]) = pos[t]

\* C1 witness: a trajectory of three dates or more holds a long, a short and
\* a flat position after its first date.
C1_Witness ==
    /\ pc = "returned"
    /\ portfolio # None
    /\ Len(portfolio.index) >= 3
    /\ \E t \in 2..Len(portfolio.index) :
          portfolio.cols["position"][t] = One
    /\ \E t \in 2..Len(portfolio.index) :
          portfolio.cols["position"][t] = RatInt(-1)

\* the signal frame with every -1 replaced by 0
ShortsReplaced(sg) ==
    [sg EXCEPT !.cols[SignalCol] =
        [i \in 1..Len(sg.index) |->
            IF sg.cols[SignalCol][i] = RatInt(-1) THEN Zero
            ELSE sg.cols[SignalCol][i]]]

HasShortSignal(sg) ==
    \E i \in 1..Len(sg.index) : sg.cols[SignalCol][i] = RatInt(-1)

\* C2 as claimed: with shorting disabled the trajectory equals, record for
\* record and field for field, the trajectory of the same prices with every
\* -1 signal replaced by 0.
C2_SameTrajectoryAllFields ==
    (/\ pc = "returned"
     /\ ~allow_shorting
     /\ ~InvalidInputs(data, signals)
     /\ HasShortSignal(signals)) =>
        portfolio = run_backtest(data, ShortsReplaced(signals),
                                 initial_capital, FALSE)

\* C2 as amended: with shorting disabled the trajectory has the same dates
\* and, on every date, the same price, position, market_return,
\* strategy_return, cumulative_market, cumulative_strategy and equity as the
\* trajectory of the same prices with every -1 signal replaced by 0; its
\* signal field repeats the input signal, -1 included, where the other
\* trajectory holds 0.
C2_SameTrajectoryButSignal ==
    (/\ pc = "returned"
     /\ ~allow_shorting
     /\ ~InvalidInputs(data, signals)
     /\ HasShortSignal(signals)) =>
        LET other == run_backtest(data, ShortsReplaced(signals),
                                  initial_capital, FALSE)
        IN  IF portfolio = None THEN other = None
            ELSE /\ other # None
                 /\ other.index = portfolio.index
                 /\ \A c \in {"Adj Close", "position", "market_return",
                               "strategy_return", "cumulative_market",
                               "cumulative_strategy", "equity_curve"} :
                       other.cols[c] = portfolio.cols[c]
                 /\ \A i \in 1..Len(portfolio.index) :
                       /\ portfolio.cols["signal"][i] =
                             SignalAt(signals, portfolio.index[i])
                       /\ other.cols["signal"][i] =
                             IF portfolio.cols["signal"][i] = RatInt(-1)
                             THEN Zero ELSE portfolio.cols["signal"][i]

\* C2 witness: shorting is disabled, a -1 signal is followed by a date whose
\* price differs from the previous one, and a trajectory is returned.
C2_Witness ==
    /\ pc = "returned"
    /\ ~allow_shorting
    /\ portfolio # None
    /\ \E t \in 2..Len(portfolio.index) :
          /\ portfolio.cols["signal"][t - 1] = RatInt(-1)
          /\ portfolio.cols["market_return"][t] # Zero
          /\ portfolio.cols["position"][t] = Zero

\* C3: a signal sequence that is 0 on every date yields, for either value of
\* allow_shorting and any initial capital, strategy_return = 0 and
\* equity = initial_capital on every date of the trajectory.
C3_ZeroSignalKeepsCapital ==
    (/\ pc = "returned"
     /\ portfolio # None
     /\ \A i \in 1..Len(signals.index) : signals.cols[SignalCol][i] = Zero) =>
        \A i \in 1..Len(portfolio.index) :
           /\ portfolio.cols["strategy_return"][i] = Zero
           /\ portfolio.cols["equity_curve"][i] = initial_capital

\* C3 witness: an all-zero signal over three dates whose prices move, with
\* shorting allowed.
C3_Witness ==
    /\ pc = "returned"
    /\ portfolio # None
    /\ allow_shorting
    /\ Len(portfolio.index) >= 3
    /\ \A i \in 1..Len(signals.index) : signals.cols[SignalCol][i] = Zero
    /\ \A i \in 2..Len(portfolio.index) :
          portfolio.cols["market_return"][i] # Zero

\* the dates both inputs hold
CommonDates(d, sg) ==
    {x \in Dates : InIndex(d.index, x) /\ InIndex(sg.index, x)}

\* an input is absent or empty, a required column is missing, or no date is
\* common to both inputs
Rejected(d, sg) ==
    \/ d = None
    \/ sg = None
    \/ Len(d.index) = 0
    \/ Len(sg.index) = 0
    \/ DOMAIN d.cols = {}
    \/ DOMAIN sg.cols = {}
    \/ PriceCol \notin DOMAIN d.cols
    \/ SignalCol \notin DOMAIN sg.cols
    \/ CommonDates(d, sg) = {}

\* C7: run_backtest returns no trajectory (None, its error signal) exactly
\* when an input is absent or empty, lacks its column, or the two inputs
\* share no date; otherwise the trajectory runs over exactly the dates
\* common to both inputs, in order, with the inputs' price and signal there.
C7_ValidationAndAlignment ==
    (pc = "returned") =>
        IF Rejected(data, signals) THEN portfolio = None
        ELSE /\ portfolio # None
             /\ {portfolio.index[i] : i \in 1..Len(portfolio.index)} =
                   CommonDates(data, signals)
             /\ \A i \in 1..(Len(portfolio.index) - 1) :
                   portfolio.index[i] < portfolio.index[i + 1]
             /\ \A i \in 1..Len(portfolio.index) :
                   /\ portfolio.cols["Adj Close"][i] =
                         data.cols[PriceCol][RowOf(data.index, portfolio.index[i])]
                   /\ portfolio.cols["signal"][i] =
                         SignalAt(signals, portfolio.index[i])

\* C7 witness: each input holds a date the other lacks, and the trajectory
\* returned runs over the dates they share.
C7_Witness ==
    /\ pc = "returned"
    /\ portfolio # None
    /\ \E x \in Dates : InIndex(data.index, x) /\ ~InIndex(signals.index, x)
    /\ \E x \in Dates : InIndex(signals.index, x) /\ ~InIndex(data.index, x)

\* the rows of the aligned inputs, before any row is dropped
Untruncated ==
    LET common_index == CommonIndex(data, signals)
    IN  BuildPortfolio(common_index,
                       LocCol(data, PriceCol, common_index),
                       LocCol(signals, SignalCol, common_index),
                       initial_capital, allow_shorting)

\* C16: the trajectory run_backtest returns begins at the first date with a
\* defined strategy_return, the rows before it being dropped; when no date
\* has a defined strategy_return the run fails (returns None) instead of
\* returning an empty trajectory.
C16_StartsAtFirstDefinedReturn ==
    (pc = "returned") =>
        /\ (portfolio # None) => Len(portfolio.index) >= 1
        /\ IF Rejected(data, signals) THEN portfolio = None
           ELSE \A full \in {Untruncated} :
                  LET defined == {i \in 1..Len(full.index) :
                                    ~IsNaN(full.cols["strategy_return"][i])}
                  IN  IF defined = {} THEN portfolio = None
                      ELSE \E first \in defined :
                             /\ \A i \in defined : first <= i
                             /\ portfolio # None
                             /\ Len(portfolio.index)
                                   = Len(full.index) - first + 1
                             /\ portfolio.index[1] = full.index[first]
                             /\ ~IsNaN(portfolio.cols["strategy_return"][1])

C16_Witness ==
    /\ pc = "returned"
    /\ portfolio # None
    /\ Len(portfolio.index) >= 2
    /\ IsNaN(portfolio.cols["signal"][1])
    /\ portfolio.cols["strategy_return"][1] = Zero
    /\ portfolio.index[1] = CommonIndex(data, signals)[1]

-----------------------------------------------------------------------------
(* One configuration of the sweep of src/main.py: the strategy is           *)
(* constructed, its signals are generated and backtested, and the metrics   *)
(* are computed.  Of the metrics record the model follows the Total Trades  *)
(* entry.                                                                   *)

\* longest price series drawn for a configuration
PipeLen == 5

INITIAL_CAPITAL == RatInt(100000)

PipelinePrices == {RatInt(1), RatInt(2), RatInt(3)}

MomentumConfigs ==
    {[strategy_type |-> "momentum", window |-> w] : w \in 1..MaxWindow}

MeanReversionConfigs ==
    {[strategy_type |-> "mean_reversion", window |-> w,
      entry_z |-> z[1], exit_z |-> z[2]] :
        w \in 1..MaxWindow, z \in {<<One, Rat(1, 2)>>, <<Rat(1, 2), Zero>>}}

SMAConfigs ==
    {[strategy_type |-> "sma_crossover", short_window |-> sw, long_window |-> lw] :
        sw \in 1..MaxWindow, lw \in 1..MaxWindow}

Configs == MomentumConfigs \cup MeanReversionConfigs \cup SMAConfigs

\* a price frame over the dates 1..Len(close)
PricesOf(close) == PriceFrame(RangeIndex(Len(close)), close)

SmallSeries == UNION {[1..k -> PipelinePrices] : k \in 0..PipeLen}

\* the five consecutive days of the momentum scenario
ScenarioPrices ==
    <<RatInt(100), RatInt(102), RatInt(101), RatInt(105), RatInt(110)>>

\* the running sums 1 + st[1] + ... + st[n] of a sequence of steps
RECURSIVE Climb(_, _)
Climb(st, n) ==
    IF n = 0 THEN <<One>>
    ELSE LET before == Climb(st, n - 1)
         IN  Append(before, RatAdd(before[n], RatInt(st[n])))

\* strictly increasing series of 10 points: every pattern of steps 1 and 3
RisingSeries == {Climb(st, 9) : st \in [1..9 -> {1, 3}]}

ScenarioSMA ==
    [strategy_type |-> "sma_crossover", short_window |-> 2, long_window |-> 3]

\* the price series and configurations drawn: every small series with every
\* configuration, the momentum scenario, and the rising series with
\* SMACrossover(2, 3)
PipelineInputs ==
    {<<PricesOf(close), p>> : close \in SmallSeries, p \in Configs}
    \cup {<<PricesOf(ScenarioPrices), p>> : p \in MomentumConfigs}
    \cup {<<PricesOf(close), ScenarioSMA>> : close \in RisingSeries}

Init ==
    /\ pc = "start"
    /\ \E in \in PipelineInputs : data = in[1] /\ params = in[2]
    /\ allow_shorting \in BOOLEAN
    /\ initial_capital = INITIAL_CAPITAL
    /\ strategy = None
    /\ signals = None
    /\ portfolio = None
    /\ metrics = None
    /\ args = None
    /\ ret = None
    /\ NoSweep

\* strategy = XStrategy(data, ...)
ConstructStrategy ==
    /\ pc = "start"
    /\ strategy' = Construct(data, params)
    /\ pc' = IF strategy' = ValueError THEN "raised" ELSE "constructed"
    /\ UNCHANGED <<data, params, signals, initial_capital, allow_shorting,
                   portfolio, metrics, args, ret>>
    /\ UNCHANGED sweepvars

\* signals = strategy.generate_signals()
GenerateSignals ==
    /\ pc = "constructed"
    /\ signals' = generate_signals(strategy)
    /\ strategy' = [strategy EXCEPT !.signals = signals']
    /\ pc' = "generated"
    /\ UNCHANGED <<data, params, initial_capital, allow_shorting, portfolio,
                   metrics, args, ret>>
    /\ UNCHANGED sweepvars

\* portfolio = run_backtest(data, signals, ...) when there are signals
RunBacktest ==
    /\ pc = "generated"
    /\ portfolio' = IF signals # None /\ ~FrameEmpty(signals)
                    THEN run_backtest(data, signals, initial_capital,
                                      allow_shorting)
                    ELSE None
    /\ pc' = "backtested"
    /\ UNCHANGED <<data, params, strategy, signals, initial_capital,
                   allow_shorting, metrics, args, ret>>
    /\ UNCHANGED sweepvars

\* the metrics of a portfolio, or the undefined entries of a failed run
CalculateMetrics ==
    /\ pc = "backtested"
    /\ metrics' = IF portfolio # None /\ ~FrameEmpty(portfolio)
                  THEN [c \in {"Total Trades"} |-> TotalTrades(portfolio)]
                  ELSE [c \in {"Total Trades"} |-> NaN]
    /\ pc' = "done"
    /\ UNCHANGED <<data, params, strategy, signals, initial_capital,
                   allow_shorting, portfolio, args, ret>>
    /\ UNCHANGED sweepvars

\* except ValueError: the undefined entries
HandleValueError ==
    /\ pc = "raised"
    /\ metrics' = [c \in {"Total Trades"} |-> NaN]
    /\ pc' = "done"
    /\ UNCHANGED <<data, params, strategy, signals, initial_capital,
                   allow_shorting, portfolio, args, ret>>
    /\ UNCHANGED sweepvars

Next ==
    \/ ConstructStrategy
    \/ GenerateSignals
    \/ RunBacktest
    \/ CalculateMetrics
    \/ HandleValueError

Spec == Init /\ [][Next]_vars

-----------------------------------------------------------------------------
(* Properties of the strategies *)

Close == data.cols[PriceCol]

\* generate_signals has returned
Generated == pc \in {"generated", "backtested", "done"} /\ signals # None

StrictlyIncreasing(close) ==
    \A i \in 1..(Len(close) - 1) : RatLt(close[i], close[i + 1])

RisingScenario ==
    /\ params = ScenarioSMA
    /\ Len(Close) = 10
    /\ StrictlyIncreasing(Close)

NoShortSignal ==
    \A i \in 1..Len(signals.cols[SignalCol]) :
        signals.cols[SignalCol][i] # RatInt(-1)

\* C4 as stated: SMACrossover(2, 3) over a strictly increasing 10-point
\* series never emits -1, and the simulated trajectory has Total Trades
\* exactly 1.
C4_OneTradeOnRisingSeries ==
    RisingScenario =>
        /\ Generated => NoShortSignal
        /\ (pc = "done") => metrics["Total Trades"] = One

\* C4, amended: SMACrossover(2, 3) over a strictly increasing 10-point
\* series never emits -1, nor any other non-zero signal, and the simulated
\* trajectory has Total Trades exactly 0.
C4_NoTradeOnRisingSeries ==
    RisingScenario =>
        /\ Generated => NoShortSignal
        /\ Generated => \A i \in 1..10 : signals.cols[SignalCol][i] = Zero
        /\ (pc = "done") => metrics["Total Trades"] = Zero

C4_Witness ==
    /\ RisingScenario
    /\ pc = "done"
    /\ portfolio # None
    /\ Len(portfolio.index) = 10
    /\ metrics["Total Trades"] = Zero

\* the sign of price(t-1)/price(t-1-window) - 1 for strictly positive prices
\* at the 1-based row i = t + 1, and 0 when there is no such pair of rows
MomentumSign(close, window, i) ==
    IF i - 1 - window < 1 THEN 0
    ELSE LET now == close[i - 1]
             before == close[i - 1 - window]
         IN  Sign(now.n * before.d - before.n * now.d)

IsScenario == Close = ScenarioPrices /\ params.window = 2

\* C5: MomentumStrategy(window) emits at date t the sign of
\* price(t-1)/price(t-1-window) - 1, and 0 when that value is zero or
\* undefined; for prices [100, 102, 101, 105, 110] and window 2 the signal
\* is 0, 0, 0, 1, 1, the position on the last date is +1 and the strategy
\* return on the last date is that date's market return.
C5_MomentumSignal ==
    (params.strategy_type = "momentum" /\ Generated) =>
        /\ signals.index = data.index
        /\ \A i \in 1..Len(Close) :
              signals.cols[SignalCol][i]
                  = RatInt(MomentumSign(Close, params.window, i))
        /\ IsScenario =>
              signals.cols[SignalCol] = <<Zero, Zero, Zero, One, One>>
        /\ (IsScenario /\ pc \in {"backtested", "done"}) =>
              /\ portfolio # None
              /\ Len(portfolio.index) = 5
              /\ portfolio.cols["position"][5] = One
              /\ portfolio.cols["strategy_return"][5]
                    = portfolio.cols["market_return"][5]

C5_Witness ==
    /\ params.strategy_type = "momentum"
    /\ IsScenario
    /\ pc = "backtested"
    /\ portfolio.cols["position"][5] = One
    /\ portfolio.cols["strategy_return"][5] = Rat(1, 21)

\* the cases in which construction is to fail
InvalidConfiguration ==
    \/ Len(data.index) = 0
    \/ params.strategy_type = "momentum"
         /\ Len(data.index) < params.window + 1
    \/ params.strategy_type = "mean_reversion"
         /\ Len(data.index) < params.window
    \/ params.strategy_type = "sma_crossover"
         /\ (params.short_window >= params.long_window
               \/ Len(data.index) < params.long_window)

\* C6: construction raises a validation error, before generate_signals is
\* called, exactly when the series is empty, or Momentum has fewer than
\* window + 1 rows, or MeanReversion fewer than window rows, or SMACrossover
\* has short_window >= long_window or fewer than long_window rows; otherwise
\* it succeeds and leaves an all-zero signal over the dates of the series.
C6_ConstructionValidation ==
    (pc # "start") =>
        /\ (strategy = ValueError) <=> InvalidConfiguration
        /\ (strategy = ValueError) =>
              pc \in {"raised", "done"} /\ signals = None /\ portfolio = None
        /\ (pc = "constructed") =>
              /\ strategy.signals.index = data.index
              /\ Len(strategy.signals.cols[SignalCol]) = Len(data.index)
              /\ \A i \in 1..Len(data.index) :
                    strategy.signals.cols[SignalCol][i] = Zero
              /\ signals = None

C6_Witness ==
    /\ pc = "raised"
    /\ strategy = ValueError
    /\ params.strategy_type = "momentum"
    /\ Len(data.index) = params.window
    /\ signals = None

IsSMA == params.strategy_type = "sma_crossover"

ShortSma == RollingMean(Close, params.short_window, params.short_window)

LongSma == RollingMean(Close, params.long_window, params.long_window)

\* a crossover event at row v: a long entry or a short entry
CrossoverAt(v) ==
    CrossedUp(ShortSma, LongSma, v) \/ CrossedDown(ShortSma, LongSma, v)

\* C14: SMACrossoverStrategy's signal is 0 before the first crossover and
\* piecewise-constant between crossovers: after a long-entry (short-entry)
\* crossover at date t it is +1 (-1) on every later date until the next
\* crossover or until the short average is below (above) the long one on
\* the date itself.
C14_HeldBetweenCrossovers ==
    (IsSMA /\ Generated) =>
        LET sig == signals.cols[SignalCol]
            n == Len(sig)
        IN  /\ \A u \in 1..n :
                  (\A v \in 1..u : ~CrossoverAt(v)) => sig[u] = Zero
            /\ \A t \in 1..n : \A u \in (t + 1)..n :
                  (/\ CrossedUp(ShortSma, LongSma, t)
                   /\ \A v \in (t + 1)..u : ~CrossoverAt(v)
                   /\ \A v \in t..u : ~SmaLt(ShortSma, LongSma, v, 0))
                      => sig[u] = One
            /\ \A t \in 1..n : \A u \in (t + 1)..n :
                  (/\ CrossedDown(ShortSma, LongSma, t)
                   /\ \A v \in (t + 1)..u : ~CrossoverAt(v)
                   /\ \A v \in t..u : ~SmaGt(ShortSma, LongSma, v, 0))
                      => sig[u] = RatInt(-1)

IsMeanReversion == params.strategy_type = "mean_reversion"

\* the rolling mean and variance behind the z-score of every row
ZStats ==
    [mean |-> RollingMean(Close, params.window, MinPeriods(params.window)),
     var  |-> RollingVariance(Close, params.window, MinPeriods(params.window))]

\* the z-score of row i is defined: enough rows in the window and a rolling
\* standard deviation that is neither undefined nor zero
ZDefined(z, i) == i >= 1 /\ ~IsNaN(z.mean[i]) /\ ~IsNaN(z.var[i])

\* z(i) < c
ZBelow(z, i, c) ==
    ZDefined(z, i) /\ ZLt(RatSub(Close[i], z.mean[i]), z.var[i], c)

\* z(i) > c
ZAbove(z, i, c) ==
    ZDefined(z, i) /\ ZGt(RatSub(Close[i], z.mean[i]), z.var[i], c)

\* the entry rule at row t, from the z-score of the row before
EntrySignal(z, t) ==
    IF ZAbove(z, t - 1, params.entry_z) THEN -1
    ELSE IF ZBelow(z, t - 1, RatNeg(params.entry_z)) THEN 1
    ELSE 0

\* the entries with the exits of held longs applied
LongExitSignal(z, t) ==
    IF /\ t > 1
       /\ EntrySignal(z, t - 1) = 1
       /\ ZAbove(z, t - 1, RatNeg(params.exit_z))
    THEN 0 ELSE EntrySignal(z, t)

\* then the exits of held shorts applied
ShortExitSignal(z, t) ==
    IF /\ t > 1
       /\ LongExitSignal(z, t - 1) = -1
       /\ ZBelow(z, t - 1, params.exit_z)
    THEN 0 ELSE LongExitSignal(z, t)

\* C15: MeanReversionStrategy's signal at date t is +1 if z(t-1) < -entry_z,
\* -1 if z(t-1) > +entry_z and 0 otherwise (an undefined z included); then,
\* exits after entries, it is overwritten to 0 when the signal of the date
\* before is +1 and z(t-1) > -exit_z, or is -1 and z(t-1) < +exit_z.  In the
\* final output no date has a non-zero signal while the final signal of the
\* date before is +1 and z(t-1) > -exit_z, or is -1 and z(t-1) < +exit_z.
C15_MeanReversionSignal ==
    (IsMeanReversion /\ Generated) =>
        \A z \in {ZStats} :
            LET sig == signals.cols[SignalCol]
            IN  /\ \A t \in 1..Len(sig) :
                      sig[t] = RatInt(ShortExitSignal(z, t))
                /\ \A t \in 2..Len(sig) :
                      (\/ sig[t - 1] = One
                            /\ ZAbove(z, t - 1, RatNeg(params.exit_z))
                       \/ sig[t - 1] = RatInt(-1)
                            /\ ZBelow(z, t - 1, params.exit_z))
                          => sig[t] = Zero

C15_Witness ==
    /\ IsMeanReversion
    /\ Generated
    /\ \E z \in {ZStats} : \E t \in 2..Len(Close) :
          /\ EntrySignal(z, t) = -1
          /\ signals.cols[SignalCol][t - 1] = One
          /\ signals.cols[SignalCol][t] = Zero

-----------------------------------------------------------------------------
(* Calls of the metric functions on arbitrary inputs *)

EquityValues == {NaN, RatInt(-1), Zero, One, RatInt(2), RatInt(3)}

\* daily returns, in the unit the risk-free rate is given in
ReturnValues == {NaN, RatInt(-1), Zero, One, RatInt(2)}

\* annual risk-free rates: a daily rate of 0, 1/2 and 1
RiskFreeRates == {Zero, RatInt(126), RatInt(252)}

CagrValues == {None, NaN, Rat(-1, 10), Zero, Rat(1, 10), Rat(1, 5)}

DrawdownValues == {None, NaN, Rat(-1, 5), Rat(-1, 10), Zero, Rat(1, 5)}

SeriesOver(S) == UNION {{Series(v) : v \in [1..k -> S]} : k \in 0..MaxLen}

MetricArgs ==
    {[fn |-> "curve", portfolio_value |-> v] :
        v \in SeriesOver(EquityValues) \cup {None}}
    \cup {[fn |-> "returns", returns |-> r, risk_free_rate |-> f] :
        r \in SeriesOver(ReturnValues) \cup {None}, f \in RiskFreeRates}
    \cup {[fn |-> "calmar", cagr |-> c, max_drawdown |-> m] :
        c \in CagrValues, m \in DrawdownValues}

InitMetrics ==
    /\ pc = "call"
    /\ args \in MetricArgs
    /\ ret = None
    /\ NoSweep
    /\ data = None
    /\ signals = None
    /\ initial_capital = None
    /\ allow_shorting = FALSE
    /\ portfolio = None
    /\ params = None
    /\ strategy = None
    /\ metrics = None

Returned(name, value) ==
    /\ pc' = name
    /\ ret' = value
    /\ UNCHANGED <<data, params, strategy, signals, initial_capital,
                   allow_shorting, portfolio, metrics, args>>
    /\ UNCHANGED sweepvars

CallMaxDrawdown ==
    /\ pc = "call"
    /\ args.fn = "curve"
    /\ Returned("calculate_max_drawdown",
                calculate_max_drawdown(args.portfolio_value))

CallSharpe ==
    /\ pc = "call"
    /\ args.fn = "returns"
    /\ Returned("calculate_sharpe",
                calculate_sharpe(args.returns, args.risk_free_rate))

CallSortino ==
    /\ pc = "call"
    /\ args.fn = "returns"
    /\ Returned("calculate_sortino",
                calculate_sortino(args.returns, args.risk_free_rate))

CallCalmar ==
    /\ pc = "call"
    /\ args.fn = "calmar"
    /\ Returned("calculate_calmar",
                calculate_calmar(args.cagr, args.max_drawdown))

NextMetrics == CallMaxDrawdown \/ CallSharpe \/ CallSortino \/ CallCalmar

SpecMetrics == InitMetrics /\ [][NextMetrics]_vars

-----------------------------------------------------------------------------
(* Properties of the metric functions *)

\* a series of two or more points, each a strictly positive number
PositiveCurve(v) ==
    /\ Len(v) >= 2
    /\ \A i \in 1..Len(v) : v[i].d > 0 /\ v[i].n > 0

\* no point of the curve lies below an earlier one
NeverBelowPeak(v) ==
    \A i \in 1..Len(v) : \A j \in 1..i : v[j].n * v[i].d <= v[i].n * v[j].d

\* C8: for a curve of two or more strictly positive values the maximum
\* drawdown d is a number with -1 <= d <= 0, and d = 0 exactly when the
\* curve never falls below its running maximum; for a curve with fewer than
\* two points or with a value <= 0 it is undefined.
C8_MaxDrawdownRange ==
    (pc = "calculate_max_drawdown") =>
        IF args.portfolio_value = None THEN ret = NaN
        ELSE LET v == args.portfolio_value.values
             IN  /\ PositiveCurve(v) =>
                       /\ ret.d > 0
                       /\ -ret.d <= ret.n
                       /\ ret.n <= 0
                       /\ (ret.n = 0) <=> NeverBelowPeak(v)
                 /\ (\/ Len(v) < 2
                     \/ \E i \in 1..Len(v) : v[i].d > 0 /\ v[i].n <= 0)
                    => ret = NaN

\* C8 witness: a positive curve of three points that rises and then falls
\* below its peak.
C8_Witness ==
    /\ pc = "calculate_max_drawdown"
    /\ args.portfolio_value # None
    /\ PositiveCurve(args.portfolio_value.values)
    /\ Len(args.portfolio_value.values) = 3
    /\ RatLt(args.portfolio_value.values[1], args.portfolio_value.values[2])
    /\ RatLt(args.portfolio_value.values[3], args.portfolio_value.values[2])
    /\ ret.d > 0
    /\ ret.n < 0

\* two or more observations, every excess return strictly positive
AllExcessPositive(r, f) ==
    /\ r # None
    /\ Len(r.values) >= 2
    /\ \A i \in 1..Len(r.values) :
          /\ r.values[i].d > 0
          /\ r.values[i].n * f.d * TradingDays > f.n * r.values[i].d

\* a ratio s * sqrt(q) that is defined and strictly positive
PositiveRatio(x) ==
    /\ DOMAIN x = {"sgn", "sq"}
    /\ x.sgn = 1
    /\ x.sq.d > 0
    /\ x.sq.n > 0

\* C9: when every excess return of a series of two or more observations is
\* strictly positive, calculate_sharpe is undefined or strictly positive and
\* calculate_sortino is +infinity or strictly positive.
C9_SignOfRatios ==
    /\ (/\ pc = "calculate_sharpe"
        /\ AllExcessPositive(args.returns, args.risk_free_rate)) =>
           (ret = NaN \/ PositiveRatio(ret))
    /\ (/\ pc = "calculate_sortino"
        /\ AllExcessPositive(args.returns, args.risk_free_rate)) =>
           (ret = Inf \/ PositiveRatio(ret))

\* C9 witness: three unequal returns above a non-zero daily risk-free rate
\* and a defined Sharpe ratio.
C9_Witness ==
    /\ pc = "calculate_sharpe"
    /\ AllExcessPositive(args.returns, args.risk_free_rate)
    /\ args.risk_free_rate # Zero
    /\ Len(args.returns.values) = 3
    /\ args.returns.values[1] # args.returns.values[2]
    /\ PositiveRatio(ret)

\* a defined number
Defined(x) == x # None /\ x.d > 0

\* C10: calculate_calmar(cagr, max_drawdown) is cagr / |max_drawdown| when
\* both inputs are defined and max_drawdown # 0, so that
\* Calmar(0.10, -0.20) = 0.5; it is undefined when an input is undefined or
\* max_drawdown is 0; and negating max_drawdown leaves the result as it is.
C10_Calmar ==
    (pc = "calculate_calmar") =>
        LET c == args.cagr
            m == args.max_drawdown
        IN  /\ IF Defined(c) /\ Defined(m) /\ m # Zero
               THEN /\ ret.d > 0
                    /\ ret.n * Abs(m.n) * c.d = c.n * ret.d * m.d
                    /\ ret = calculate_calmar(c, RatNeg(m))
               ELSE ret = NaN
            /\ (c = Rat(1, 10) /\ m = Rat(-1, 5)) => ret = Rat(1, 2)

\* C10 witness: Calmar(0.10, -0.20) has returned 0.5.
C10_Witness ==
    /\ pc = "calculate_calmar"
    /\ args.cagr = Rat(1, 10)
    /\ args.max_drawdown = Rat(-1, 5)
    /\ ret = Rat(1, 2)

-----------------------------------------------------------------------------
(* Calls of calculate_performance_metrics on arbitrary trajectories *)

\* a frame without one of its columns
Without(f, col) ==
    [index |-> f.index, cols |-> [c \in DOMAIN f.cols \ {col} |-> f.cols[c]]]

\* the trajectories run_backtest returns for the prices and signals of up to
\* MaxLen days
Trajectories ==
    UNION {{run_backtest(PricesOf(close), SignalFrame(RangeIndex(k), sig),
                         INITIAL_CAPITAL, shorting) :
               close \in [1..k -> {RatInt(1), RatInt(2)}],
               sig \in [1..k -> SignalValues],
               shorting \in BOOLEAN} : k \in 1..MaxLen} \ {None}

\* a frame with no row and the columns of a trajectory
EmptyTrajectory ==
    [index |-> <<>>,
     cols |-> [c \in {"Adj Close", "signal", "position", "market_return",
                      "strategy_return", "cumulative_market",
                      "cumulative_strategy", "equity_curve"} |-> <<>>]]

RecordArgs ==
    {[portfolio |-> pf, risk_free_rate |-> f] :
        pf \in {None, EmptyTrajectory} \cup Trajectories
                \cup {Without(t, c) : t \in Trajectories,
                         c \in {"equity_curve", "strategy_return", "position"}},
        f \in {Zero, RatInt(126)}}

InitRecord ==
    /\ pc = "call"
    /\ args \in RecordArgs
    /\ ret = None
    /\ NoSweep
    /\ data = None
    /\ params = None
    /\ strategy = None
    /\ signals = None
    /\ initial_capital = None
    /\ allow_shorting = FALSE
    /\ portfolio = None
    /\ metrics = None

CallPerformanceMetrics ==
    /\ pc = "call"
    /\ ret' = calculate_performance_metrics(args.portfolio, args.risk_free_rate)
    /\ pc' = "calculate_performance_metrics"
    /\ UNCHANGED <<data, params, strategy, signals, initial_capital,
                   allow_shorting, portfolio, metrics, args>>
    /\ UNCHANGED sweepvars

NextRecord == CallPerformanceMetrics

SpecRecord == InitRecord /\ [][NextRecord]_vars

\* the trajectory is absent, empty, without its equity or strategy-return
\* column, or valid
ListedTrajectory(pf) ==
    \/ pf = None
    \/ FrameEmpty(pf)
    \/ "equity_curve" \notin DOMAIN pf.cols
    \/ "strategy_return" \notin DOMAIN pf.cols
    \/ pf \in Trajectories

\* C11: calculate_performance_metrics never raises for a trajectory that is
\* absent, empty, without its equity or strategy-return column, or valid, and
\* always returns a record of the same eight names (CAGR, Annualized Sharpe
\* Ratio, Annualized Sortino Ratio, Max Drawdown, Calmar Ratio, Cumulative
\* Return, Annualized Volatility, Total Trades).
C11_FixedRecord ==
    (pc = "calculate_performance_metrics" /\ ListedTrajectory(args.portfolio)) =>
        /\ "raised" \notin DOMAIN ret
        /\ DOMAIN ret = {"CAGR", "Annualized Sharpe Ratio",
                         "Annualized Sortino Ratio", "Max Drawdown",
                         "Calmar Ratio", "Cumulative Return",
                         "Annualized Volatility", "Total Trades"}

\* the units by which a position of whole units changes over the dates 2..n
RECURSIVE UnitChanges(_, _)
UnitChanges(position, n) ==
    IF n <= 1 THEN 0
    ELSE UnitChanges(position, n - 1) + Abs(position[n].n - position[n - 1].n)

ValidCall ==
    pc = "calculate_performance_metrics" /\ args.portfolio \in Trajectories

\* C13: Total Trades of a trajectory is the sum over consecutive dates of
\* |position(t) - position(t-1)| divided by 2: a round trip flat, long, flat
\* is exactly 1 trade, and a flip from long to short adds exactly 1 trade to
\* the half trade of the entry before it.
C13_TotalTrades ==
    ValidCall =>
        LET position == args.portfolio.cols["position"]
        IN  /\ ret["Total Trades"]
                  = Rat(UnitChanges(position, Len(position)), 2)
            /\ (position = <<Zero, One, Zero>>) => ret["Total Trades"] = One
            /\ (position = <<Zero, One>>) => ret["Total Trades"] = Rat(1, 2)
            /\ (position = <<Zero, One, RatInt(-1)>>) =>
                  ret["Total Trades"] = RatAdd(Rat(1, 2), One)

C13_Witness ==
    /\ ValidCall
    /\ args.portfolio.cols["position"] = <<Zero, One, RatInt(-1)>>
    /\ ret["Total Trades"] = Rat(3, 2)

-----------------------------------------------------------------------------
(* The parameter sweep of src/main.py.  One step is one pass of the loop    *)
(* over parameter_combinations; the strategy, signals, portfolio and        *)
(* metrics variables are the locals of the pass.  RISK_FREE_RATE is a       *)
(* configured value of main.py; the sweep is followed for the rates drawn   *)
(* at the start, which keep the arithmetic within TLC's integers.           *)

\* longest list of parameter combinations drawn
SweepLen == 3

NegInf == [n |-> -1, d |-> 0]

\* the constructor arguments main.py takes out of a parameter combination
StrategyArgs(p) ==
    CASE p.strategy_type = "momentum" ->
            [strategy_type |-> "momentum", window |-> p.momentum_window]
      [] p.strategy_type = "mean_reversion" ->
            [strategy_type |-> "mean_reversion",
             window |-> p.mean_reversion_window,
             entry_z |-> p.mean_reversion_entry_z,
             exit_z |-> p.mean_reversion_exit_z]
      [] p.strategy_type = "sma_crossover" ->
            [strategy_type |-> "sma_crossover",
             short_window |-> p.sma_short_window,
             long_window |-> p.sma_long_window]

\* a variant that also takes a ratio equal to the best so far
SharpeGt_OrEqual(a, b) ==
    IF b = NegInf THEN TRUE
    ELSE IF a.sgn # b.sgn THEN a.sgn > b.sgn
    ELSE IF a.sgn = 1 THEN RatLe(b.sq, a.sq)
    ELSE IF a.sgn = -1 THEN RatLe(a.sq, b.sq)
    ELSE TRUE

\* a > b for a defined Sharpe ratio a and a best-so-far b, which is -inf or
\* a defined ratio; a ratio is the sign and the square of its value
SharpeGt(a, b) ==
    IF b = NegInf THEN TRUE
    ELSE IF a.sgn # b.sgn THEN a.sgn > b.sgn
    ELSE IF a.sgn = 1 THEN RatLt(b.sq, a.sq)
    ELSE IF a.sgn = -1 THEN RatLt(a.sq, b.sq)
    ELSE FALSE

\* a variant that fills the keys calculate_performance_metrics fills for a
\* trajectory it rejects
AllUndefined_AsRejected == [k \in RejectedNames |-> NaN]

\* the metrics of a pass that failed: every key of line 138 undefined
AllUndefined ==
    [k \in {"CAGR", "Annualized Sharpe Ratio", "Annualized Sortino Ratio",
            "Max Drawdown", "Calmar Ratio", "Cumulative Return",
            "Annualized Volatility", "Total Trades"} |-> NaN]

\* run_result = params.copy(); run_result.update(metrics)
Update(p, m) ==
    [k \in DOMAIN p \cup DOMAIN m |-> IF k \in DOMAIN m THEN m[k] ELSE p[k]]

SweepConfigs ==
    {[strategy_type |-> "momentum", allow_shorting |-> b, momentum_window |-> 1] :
        b \in BOOLEAN}
    \cup {[strategy_type |-> "momentum", allow_shorting |-> FALSE,
           momentum_window |-> 2 * MaxWindow]}
    \cup {[strategy_type |-> "mean_reversion", allow_shorting |-> TRUE,
           mean_reversion_window |-> 2, mean_reversion_entry_z |-> Rat(1, 2),
           mean_reversion_exit_z |-> Zero]}
    \cup {[strategy_type |-> "sma_crossover", allow_shorting |-> FALSE,
           sma_short_window |-> 1, sma_long_window |-> 2]}

\* the loaded price data, never empty (main.py exits otherwise): the series
\* of 3 and of 5 days that start at 2, end at 3 and move every day
SweepData ==
    {PricesOf(close) :
        close \in {c \in [1..3 -> PipelinePrices] \cup [1..5 -> PipelinePrices] :
                      /\ c[1] = RatInt(2)
                      /\ c[Len(c)] = RatInt(3)
                      /\ \A i \in 1..(Len(c) - 1) : c[i + 1] # c[i]}}

InitSweep ==
    /\ pc = "sweep"
    /\ data \in SweepData
    /\ parameter_combinations
          \in UNION {[1..k -> SweepConfigs] : k \in 0..SweepLen}
    /\ RISK_FREE_RATE \in {Zero, RatInt(126)}
    /\ initial_capital = INITIAL_CAPITAL
    /\ all_results = <<>>
    /\ best_sharpe = NegInf
    /\ best_portfolio = None
    /\ best_params = None
    /\ best_metrics = None
    /\ params = None
    /\ strategy = None
    /\ signals = None
    /\ portfolio = None
    /\ metrics = None
    /\ allow_shorting = FALSE
    /\ args = None
    /\ ret = None

\* one pass of the loop: lines 92-159
SweepIteration ==
    /\ pc = "sweep"
    /\ Len(all_results) < Len(parameter_combinations)
    /\ params' = parameter_combinations[Len(all_results) + 1]
    /\ allow_shorting' = params'.allow_shorting
    /\ strategy' = LET st == Construct(data, StrategyArgs(params'))
                   IN  IF st = ValueError THEN st
                       ELSE [st EXCEPT !.signals = generate_signals(st)]
    /\ signals' = IF strategy' = ValueError THEN None ELSE strategy'.signals
    /\ portfolio' = IF signals' # None /\ ~FrameEmpty(signals')
                    THEN run_backtest(data, signals', initial_capital,
                                      allow_shorting')
                    ELSE None
    /\ metrics' = IF portfolio' # None /\ ~FrameEmpty(portfolio')
                  THEN calculate_performance_metrics(portfolio', RISK_FREE_RATE)
                  ELSE AllUndefined
    /\ LET current_sharpe == metrics'["Annualized Sharpe Ratio"]
           better == /\ portfolio' # None /\ ~FrameEmpty(portfolio')
                     /\ ~IsNaN(current_sharpe)
                     /\ SharpeGt(current_sharpe, best_sharpe)
       IN  /\ best_sharpe' = IF better THEN current_sharpe ELSE best_sharpe
           /\ best_portfolio' = IF better THEN portfolio' ELSE best_portfolio
           /\ best_params' = IF better THEN params' ELSE best_params
           /\ best_metrics' = IF better THEN metrics' ELSE best_metrics
    /\ all_results' = Append(all_results, Update(params', metrics'))
    /\ UNCHANGED <<pc, data, initial_capital, args, ret,
                   parameter_combinations, RISK_FREE_RATE>>

\* after the loop: the best result is reported, or that there is none
ReportBest ==
    /\ pc = "sweep"
    /\ Len(all_results) = Len(parameter_combinations)
    /\ ret' = IF best_portfolio # None /\ best_params # None
              THEN [best_params |-> best_params, best_sharpe |-> best_sharpe,
                    best_metrics |-> best_metrics,
                    best_portfolio |-> best_portfolio]
              ELSE None
    /\ pc' = "reported"
    /\ UNCHANGED <<data, params, strategy, signals, initial_capital,
                   allow_shorting, portfolio, metrics, args>>
    /\ UNCHANGED sweepvars

NextSweep == SweepIteration \/ ReportBest

SpecSweep == InitSweep /\ [][NextSweep]_vars

-----------------------------------------------------------------------------
(* Properties of the sweep *)

\* the row appended for the configuration at place i
Row(i) == all_results[i]

\* the pass just made failed: construction raised, or no trajectory came back
PassFailed == strategy = ValueError \/ portfolio = None

\* every row so far is the row of the configuration at its place
RowsInOrder ==
    /\ Len(all_results) <= Len(parameter_combinations)
    /\ (pc = "reported") => Len(all_results) = Len(parameter_combinations)
    /\ \A i \in 1..Len(all_results) :
          \A k \in DOMAIN parameter_combinations[i] :
              Row(i)[k] = parameter_combinations[i][k]

\* a pass of the loop appends one row and goes on; when it failed the row's
\* eight metrics are undefined and the best result so far is unchanged
PassAppendsOneRow ==
    (all_results' # all_results) =>
        LET row == all_results'[Len(all_results')]
        IN  /\ all_results' = Append(all_results, row)
            /\ pc' = "sweep"
            /\ PassFailed' =>
                  /\ \A k \in {"CAGR", "Annualized Sharpe Ratio",
                                 "Annualized Sortino Ratio", "Max Drawdown",
                                 "Calmar Ratio", "Cumulative Return",
                                 "Annualized Volatility", "Total Trades"} :
                        k \in DOMAIN row /\ row[k] = NaN
                  /\ best_sharpe' = best_sharpe
                  /\ best_params' = best_params
                  /\ best_metrics' = best_metrics
                  /\ best_portfolio' = best_portfolio

\* C12: every configuration of the sweep produces exactly one result row,
\* appended in configuration order; a configuration whose construction or
\* backtest fails yields a row whose eight metrics are all undefined, the
\* sweep goes on with the next configuration, and the failure leaves
\* best_sharpe, best_params, best_metrics and best_portfolio unchanged.
C12_OneRowPerConfiguration == []RowsInOrder /\ [][PassAppendsOneRow]_vars

C12_Witness ==
    /\ pc = "reported"
    /\ Len(all_results) = SweepLen
    /\ PassFailed
    /\ best_params # None
    /\ best_params = parameter_combinations[1]
    /\ Row(SweepLen)["Total Trades"] = NaN
    /\ Row(1)["Total Trades"] # NaN

\* the Sharpe ratio of the row at place i
SharpeOf(i) == Row(i)["Annualized Sharpe Ratio"]

\* the square of a defined ratio with the ratio's sign: it orders ratios as
\* their values do
SignedSquare(x) == RatMul(RatInt(x.sgn), x.sq)

\* the places, among the configurations processed, with a defined Sharpe
DefinedPlaces == {i \in 1..Len(all_results) : ~IsNaN(SharpeOf(i))}

\* the trajectory of a configuration on the loaded data
TrajectoryOf(p) ==
    run_backtest(data, generate_signals(Construct(data, StrategyArgs(p))),
                 initial_capital, p.allow_shorting)

\* place b is the first that attains the greatest defined Sharpe
FirstBest(b) ==
    /\ b \in DefinedPlaces
    /\ \A i \in DefinedPlaces :
          /\ RatLe(SignedSquare(SharpeOf(i)), SignedSquare(SharpeOf(b)))
          /\ (i < b) =>
                RatLt(SignedSquare(SharpeOf(i)), SignedSquare(SharpeOf(b)))

\* C17: after the loop has processed any list of configurations the tracked
\* best result is that of the first configuration attaining the greatest
\* defined Sharpe ratio among those with a trajectory; best_params,
\* best_metrics and best_portfolio belong to that configuration; a
\* configuration with an undefined Sharpe is never selected, and when no
\* configuration has a defined Sharpe no best result is reported.
C17_BestBySharpe ==
    (pc \in {"sweep", "reported"}) =>
        IF DefinedPlaces = {}
        THEN /\ best_sharpe = NegInf
             /\ best_params = None
             /\ best_metrics = None
             /\ best_portfolio = None
             /\ (pc = "reported") => ret = None
        ELSE \E b \in DefinedPlaces :
                /\ FirstBest(b)
                /\ best_sharpe = SharpeOf(b)
                /\ best_params = parameter_combinations[b]
                /\ \A k \in DOMAIN best_metrics : best_metrics[k] = Row(b)[k]
                /\ DOMAIN best_metrics = DOMAIN Row(b) \ DOMAIN best_params
                /\ best_portfolio = TrajectoryOf(parameter_combinations[b])
                /\ (pc = "reported") =>
                      /\ ret # None
                      /\ ret.best_params = best_params
                      /\ ret.best_sharpe = best_sharpe
                      /\ ret.best_metrics = best_metrics
                      /\ ret.best_portfolio = best_portfolio

C17_Witness ==
    /\ pc = "reported"
    /\ ret # None
    /\ Len(parameter_combinations) = 3
    /\ DefinedPlaces = {1, 2, 3}
    /\ best_params = parameter_combinations[2]
    /\ parameter_combinations[3] # parameter_combinations[2]
    /\ SharpeOf(3) = SharpeOf(2)
    /\ SharpeOf(1) # SharpeOf(2)

-----------------------------------------------------------------------------
(* No lookahead, from the prices to the position held.                      *)

\* the series that agrees with close up to row c and is v on every later row
Alternative(close, c, v) ==
    ToSeq([i \in 1..Len(close) |-> IF i <= c THEN close[i] ELSE v], Len(close))

\* the signals of the configuration on another price series over the same
\* dates
SignalsOn(close) ==
    generate_signals(Construct(PriceFrame(data.index, close), params))

\* the trajectory of those signals on that series
TrajectoryOn(close, sg) ==
    run_backtest(PriceFrame(data.index, close), sg, initial_capital,
                 allow_shorting)

\* the position a trajectory holds at date t, None when it has no such date
PositionAt(pf, t) ==
    IF pf = None THEN None
    ELSE LET rows == {k \in 1..Len(pf.index) : pf.index[k] = t}
         IN  IF rows = {} THEN None
             ELSE pf.cols["position"][CHOOSE k \in rows : TRUE]

\* the price that replaces the later rows.  Every series drawn is compared
\* with the series that keeps its first c rows and is flat afterwards, so two
\* series drawn that agree on their first c rows are compared with the same
\* flat series, and through it with each other.
LaterPrices == {RatInt(1)}

\* run_backtest has returned in the pipeline
Backtested == pc = "backtested" /\ signals # None

\* the configurations drawn: two of each strategy
LookaheadConfigs ==
    {[strategy_type |-> "momentum", window |-> w] : w \in {1, 2}}
    \cup {[strategy_type |-> "mean_reversion", window |-> w,
           entry_z |-> Rat(1, 2), exit_z |-> Zero] : w \in {2, 3}}
    \cup {[strategy_type |-> "sma_crossover", short_window |-> w,
           long_window |-> w + 1] : w \in {1, 2}}

\* the pipeline on every small series with each of these configurations
InitLookahead ==
    /\ Init
    /\ Close \in SmallSeries
    /\ params \in LookaheadConfigs

SpecLookahead == InitLookahead /\ [][Next]_vars

\* C18: for each strategy the signal at date t depends only on the prices at
\* dates <= t, and the position run_backtest applies at date t only on the
\* prices at dates <= t - 1: a price series that agrees with the one loaded
\* on every date <= c and differs afterwards yields the same signals up to
\* date c and the same positions up to date c + 1.
C18_NoLookahead ==
    Backtested =>
        \A c \in 0..(Len(Close) - 1), v \in LaterPrices :
            \A alt \in {Alternative(Close, c, v)} :
                \A other \in {SignalsOn(alt)} :
                    /\ \A t \in 1..c :
                          other.cols[SignalCol][t] = signals.cols[SignalCol][t]
                    /\ \A pf \in {TrajectoryOn(alt, other)} :
                          \A t \in 1..Len(Close) :
                              (t <= c + 1) =>
                                  PositionAt(pf, t) = PositionAt(portfolio, t)

C18_Witness ==
    /\ Backtested
    /\ portfolio # None
    /\ \E c \in 1..(Len(Close) - 1), v \in LaterPrices :
          /\ v # Close[c + 1]
          /\ PositionAt(portfolio, c + 1) \in {One, RatInt(-1)}
          /\ \A other \in {SignalsOn(Alternative(Close, c, v))} :
                /\ other # signals
                /\ PositionAt(TrajectoryOn(Alternative(Close, c, v), other), c + 1)
                      = PositionAt(portfolio, c + 1)

=============================================================================
